---- MODULE Spec2Model ----
(***************************************************************************)
(* A model of the two survey-simulation scripts of IAT-GPT-simulations:    *)
(*   - the scoring pipeline (generate_profiles, create_donation_prompt,    *)
(*     get_gpt_response, extract_score, run_simulation), and               *)
(*   - the structured pipeline of JapaneseLanguageReference.py             *)
(*     (load_profiles_from_xlsx, build_*_prompt, chat_completion_json,     *)
(*     run_study).                                                          *)
(* Texts are sequences of one-character strings (or of tokens, where the   *)
(* code only looks at tokens); the text-generation service is an           *)
(* unreliable function whose outcome is drawn nondeterministically.        *)
(***************************************************************************)
EXTENDS Integers, Sequences, FiniteSets, TLC

VARIABLES
    pipeline,   \* which script / function is running
    pc,         \* position of the running script
    text,       \* extract_score: the reply text scanned
    score,      \* extract_score: the value returned
    data,       \* run_study: the object chat_completion_json returned
    reasons,    \* run_study: the coerced reason fields
    items,      \* run_study: the coerced item fields
    exc,        \* the exception that ended the script ("none" if none)
    n_target,   \* run_study: the participant count N_TARGET
    file,       \* run_study: the demographics table read from the XLSX
    profiles,   \* the profile sequence the batch loop runs over
    design,     \* run_study: the shuffled questionnaire languages
    idx,        \* the loop index (participant_id, or profile number)
    calls,      \* the external calls issued for the current prompt
    ncalls,     \* the number of external calls issued so far
    rows,       \* the result collection (rows / all_results)
    jsonl_lines,\* run_study: the JSONL lines collected
    output,     \* the table written at the end
    cond,       \* run_simulation: the number of the current condition
    inputs,     \* the prompt builders' arguments, for two renders
    prompts     \* the prompts rendered last

\* the variables of the pure-function specifications
fvars == <<text, score, data, reasons, items>>

\* the variables of the batch loops
bvars == <<n_target, file, profiles, design, idx, calls, ncalls, rows, jsonl_lines, output>>

\* the condition counter and the prompt builders' variables
pvars == <<cond, inputs, prompts>>

vars == <<pipeline, pc, exc, fvars, bvars, pvars>>

\* the batch variables before a script has started
BatchIdle ==
    /\ n_target = 0
    /\ file = <<>>
    /\ profiles = <<>>
    /\ design = <<>>
    /\ idx = 0
    /\ calls = <<>>
    /\ ncalls = 0
    /\ rows = <<>>
    /\ jsonl_lines = <<>>
    /\ output = <<>>
    /\ cond = 0
    /\ inputs = <<>>
    /\ prompts = <<>>

(***************************************************************************)
(* Bounds of the model.                                                    *)
(***************************************************************************)
\* longest reply text handed to extract_score
MaxTextLen == 4

\* longest string value of a reply object's field
MaxStrLen == 2

\* the number of profiles generate_profiles asks the service for in the
\* bounded run_simulation; the script asks for 25 (part_000, line 26)
AskedProfiles == 2

\* the most calls of get_gpt_response that raise in one run_simulation
MaxFailures == 1

\* half the participant count of the bounded run_study; the script's count
\* is N_TARGET = 308 = 2 * 154 (line 30)
HalfTarget == 1

N_TARGET == 2 * HalfTarget

(***************************************************************************)
(* Characters and the regular-expression classes used by the code.         *)
(***************************************************************************)
Digits == {"0", "1", "2", "3", "4", "5", "6", "7", "8", "9"}

Letters == {"a", "E", "R", "O"}

\* \w of Python's re: letters, digits and the underscore
IsWord(c) == c \in Digits \cup Letters \cup {"_"}

IsDigit(c) == c \in Digits

DigitVal(c) ==
    CASE c = "0" -> 0 [] c = "1" -> 1 [] c = "2" -> 2 [] c = "3" -> 3
      [] c = "4" -> 4 [] c = "5" -> 5 [] c = "6" -> 6 [] c = "7" -> 7
      [] c = "8" -> 8 [] c = "9" -> 9

\* the characters reply texts are built from in the bounded model
ScoreChars == {"0", "4", "7", "8", ".", " ", "a"}

\* all texts over S of length at most n
TextsUpTo(S, n) == UNION {[1..k -> S] : k \in 0..n}

\* whether position i of t holds a word character (FALSE outside the text)
WordAt(t, i) == i >= 1 /\ i <= Len(t) /\ IsWord(t[i])

\* \b between positions i-1 and i of t
Boundary(t, i) == WordAt(t, i - 1) # WordAt(t, i)

\* the last index of the run of digits of t that starts at i (i - 1 if none)
RECURSIVE DigitRunEnd(_, _)
DigitRunEnd(t, i) ==
    IF i <= Len(t) /\ IsDigit(t[i]) THEN DigitRunEnd(t, i + 1) ELSE i - 1

(***************************************************************************)
(* extract_score (part_000, lines 81-90).                                  *)
(***************************************************************************)
NoScore == <<>>

\* The regular expression \b([1-7](?:\.\d+)?)\b tried at position i:
\* the index of the last character matched, or 0 when it does not match at i.
\* \d+ is greedy; a shorter \d+ never ends at a word boundary, so the only
\* backtracking that succeeds drops the optional group.
ScoreMatchEnd(t, i) ==
    IF ~(i <= Len(t) /\ Boundary(t, i) /\ t[i] \in {"1", "2", "3", "4", "5", "6", "7"})
    THEN 0
    ELSE LET j == IF i + 2 <= Len(t) /\ t[i + 1] = "." /\ IsDigit(t[i + 2])
                  THEN DigitRunEnd(t, i + 2)
                  ELSE 0
         IN  IF j > 0 /\ Boundary(t, j + 1) THEN j
             ELSE IF Boundary(t, i + 1) THEN i
             ELSE 0

\* re.findall: the non-overlapping matches from position i on, left to right,
\* each as <<first index, last index>>
RECURSIVE FindAllScores(_, _)
FindAllScores(t, i) ==
    IF i > Len(t) THEN <<>>
    ELSE LET e == ScoreMatchEnd(t, i)
         IN  IF e = 0 THEN FindAllScores(t, i + 1)
             ELSE <<(<<i, e>>)>> \o FindAllScores(t, e + 1)

\* float(match) as <<integer part, fractional digits without trailing zeros>>
\* (exact for the short texts of the model: a double keeps 15 decimal digits)
RECURSIVE StripZeros(_)
StripZeros(ds) ==
    IF ds # <<>> /\ ds[Len(ds)] = "0" THEN StripZeros(SubSeq(ds, 1, Len(ds) - 1))
    ELSE ds

FloatOf(t, m) == <<DigitVal(t[m[1]]), StripZeros(SubSeq(t, m[1] + 2, m[2]))>>

\* 1 <= score <= 7 for a value <<d, frac>>
InScoreRange(v) == v[1] >= 1 /\ (v[1] < 7 \/ (v[1] = 7 /\ v[2] = <<>>))

RECURSIVE FirstInRange(_, _)
FirstInRange(t, ms) ==
    IF ms = <<>> THEN NoScore
    ELSE IF InScoreRange(FloatOf(t, Head(ms))) THEN FloatOf(t, Head(ms))
    ELSE FirstInRange(t, Tail(ms))

extract_score(t) == FirstInRange(t, FindAllScores(t, 1))

(***************************************************************************)
(* Specification of extract_score on bounded reply texts.                  *)
(***************************************************************************)
InitScore ==
    /\ pipeline = "score"
    /\ pc = "call"
    /\ text \in TextsUpTo(ScoreChars, MaxTextLen)
    /\ score = NoScore
    /\ data = <<>>
    /\ reasons = <<>>
    /\ items = <<>>
    /\ exc = "none"
    /\ BatchIdle

ExtractScore ==
    /\ pipeline = "score"
    /\ pc = "call"
    /\ score' = extract_score(text)
    /\ pc' = "returned"
    /\ UNCHANGED <<pipeline, text, data, reasons, items, exc, bvars, pvars>>

NextScore == ExtractScore

SpecScore == InitScore /\ [][NextScore]_vars

(***************************************************************************)
(* The reference the extraction is compared with: the integer-or-decimal   *)
(* tokens of a text are its maximal numerals (digits, optionally a point   *)
(* and more digits) standing between word boundaries; a digit inside a     *)
(* numeral is not a token of its own.                                      *)
(***************************************************************************)
\* the last index of the maximal numeral that starts at digit i
NumeralEnd(t, i) ==
    LET e == DigitRunEnd(t, i)
    IN  IF e + 2 <= Len(t) /\ t[e + 1] = "." /\ IsDigit(t[e + 2])
        THEN DigitRunEnd(t, e + 2)
        ELSE e

RECURSIVE NumberTokens(_, _)
NumberTokens(t, i) ==
    IF i > Len(t) THEN <<>>
    ELSE IF ~IsDigit(t[i]) THEN NumberTokens(t, i + 1)
    ELSE LET e == NumeralEnd(t, i)
         IN  (IF Boundary(t, i) /\ Boundary(t, e + 1) THEN <<(<<i, e>>)>> ELSE <<>>)
             \o NumberTokens(t, e + 1)

RECURSIVE IntValue(_)
IntValue(ds) ==
    IF ds = <<>> THEN 0
    ELSE 10 * IntValue(SubSeq(ds, 1, Len(ds) - 1)) + DigitVal(ds[Len(ds)])

\* the numeric value of the token m of t, as <<integer part, fraction>>
TokenValue(t, m) ==
    LET e == DigitRunEnd(t, m[1])
    IN  <<IntValue(SubSeq(t, m[1], e)), StripZeros(SubSeq(t, e + 2, m[2]))>>

RECURSIVE FirstTokenInRange(_, _)
FirstTokenInRange(t, ms) ==
    IF ms = <<>> THEN NoScore
    ELSE IF InScoreRange(TokenValue(t, Head(ms))) THEN TokenValue(t, Head(ms))
    ELSE FirstTokenInRange(t, Tail(ms))

\* C1: extract_score returns the first integer-or-decimal token of the text
\* whose value lies in [1,7]; in particular, when no token of the text has a
\* value in [1,7] it returns "no score", because the digits inside a larger
\* numeral (the 5 of 0.5 or of 12.5) are not tokens of their own.
C1_NullWhenNoTokenInRange ==
    (/\ pipeline = "score"
     /\ pc = "returned"
     /\ FirstTokenInRange(text, NumberTokens(text, 1)) = NoScore)
        => score = NoScore

(***************************************************************************)
(* JSON values as json.loads builds them (JapaneseLanguageReference.py,    *)
(* line 201): None, bool, int, float (finite, in tenths, or nan / inf /    *)
(* -inf, which json.loads accepts as NaN, Infinity, 1e999), str, list,     *)
(* dict.  A key is <<prefix, rest>>: the text prefix \o rest, where prefix *)
(* is "reason_" or "item_" when the key starts with it and "" otherwise.   *)
(***************************************************************************)
None == [t |-> "null"]

PyBool(b) == [t |-> "bool", b |-> b]

PyInt(n) == [t |-> "int", i |-> n]

\* a finite float, given in tenths: PyFloat(37) is 3.7
PyFloat(x) == [t |-> "float", tenths |-> x]

\* nan, inf, -inf
PyNonFinite(k) == [t |-> "float", special |-> k]

PyStr(cs) == [t |-> "str", s |-> cs]

PyList == [t |-> "list"]

PyDict == [t |-> "dict"]

StrChars == {"3", "0", "-", " ", "a", "."}

JsonValues ==
    {None, PyBool(TRUE), PyBool(FALSE), PyList, PyDict}
    \cup {PyInt(n) : n \in {-3, 0, 1, 5, 9}}
    \cup {PyFloat(x) : x \in {-37, -30, 0, 37, 40, 99}}
    \cup {PyNonFinite(k) : k \in {"nan", "inf", "-inf"}}
    \cup {PyStr(cs) : cs \in TextsUpTo(StrChars, MaxStrLen)}

ReasonKey(i) == <<"reason_", i>>

ItemKey(i) == <<"item_", i>>

\* REASON_KEYS and ITEM_KEYS (lines 182-183)
REASON_KEYS == [i \in 1..7 |-> ReasonKey(i)]

ITEM_KEYS == [i \in 1..7 |-> ItemKey(i)]

\* dict.get(k): the value, or None for a missing key
Get(d, k) == IF k \in DOMAIN d THEN d[k] ELSE None

EmptyDict == <<>>

(***************************************************************************)
(* The coercion of run_study (lines 291-308).                              *)
(***************************************************************************)
\* isinstance(v, int): bool is a subclass of int
IsInstanceInt(v) == v.t \in {"int", "bool"}

IsInstanceFloat(v) == v.t = "float"

IsInstanceStr(v) == v.t = "str"

\* str.strip() on the blanks of the model's alphabet
RECURSIVE Strip(_)
Strip(cs) ==
    IF cs # <<>> /\ Head(cs) = " " THEN Strip(Tail(cs))
    ELSE IF cs # <<>> /\ cs[Len(cs)] = " " THEN Strip(SubSeq(cs, 1, Len(cs) - 1))
    ELSE cs

AllDigits(cs) == cs # <<>> /\ \A k \in 1..Len(cs) : IsDigit(cs[k])

\* _NUM.match(s), _NUM = ^-?\d+$ (line 184), on a stripped string
NumMatch(cs) ==
    IF cs # <<>> /\ Head(cs) = "-" THEN AllDigits(Tail(cs)) ELSE AllDigits(cs)

\* int(s) of a string _NUM matches
IntOfStr(cs) == IF Head(cs) = "-" THEN -IntValue(Tail(cs)) ELSE IntValue(cs)

\* int(v) of a finite float given in tenths: truncation toward zero
TruncTenths(x) == IF x >= 0 THEN x \div 10 ELSE -((-x) \div 10)

Raise(e) == [t |-> "raise", exc |-> e]

\* int(v) of a float: ValueError for nan, OverflowError for inf and -inf
IntOfFloat(v) ==
    IF "special" \in DOMAIN v
    THEN (IF v.special = "nan" THEN Raise("ValueError") ELSE Raise("OverflowError"))
    ELSE PyInt(TruncTenths(v.tenths))

\* a default of 0 instead of None
CoerceItemMutant(v) ==
    IF IsInstanceInt(v) THEN v
    ELSE IF IsInstanceFloat(v) THEN IntOfFloat(v)
    ELSE IF IsInstanceStr(v) /\ NumMatch(Strip(v.s)) THEN PyInt(IntOfStr(Strip(v.s)))
    ELSE PyInt(0)

\* lines 300-308 for one value v = data.get(ik): what items[ik] becomes
CoerceItem(v) ==
    IF IsInstanceInt(v) THEN v
    ELSE IF IsInstanceFloat(v) THEN IntOfFloat(v)
    ELSE IF IsInstanceStr(v) /\ NumMatch(Strip(v.s)) THEN PyInt(IntOfStr(Strip(v.s)))
    ELSE None

\* lines 292-295 for one value v = data.get(rk)
CoerceReason(v) == IF IsInstanceStr(v) THEN PyStr(Strip(v.s)) ELSE PyStr(<<>>)

CoerceReasons(d) == [i \in 1..7 |-> CoerceReason(Get(d, REASON_KEYS[i]))]

CoerceItems(d) == [i \in 1..7 |-> CoerceItem(Get(d, ITEM_KEYS[i]))]

\* the exception the loop of lines 299-308 raises on d ("none" if it completes):
\* that of the first item key, in ITEM_KEYS order, whose conversion raises
CoerceRaises(d) ==
    LET its == CoerceItems(d)
        bad == {i \in 1..7 : its[i].t = "raise"}
    IN  IF bad = {} THEN "none"
        ELSE its[CHOOSE i \in bad : \A j \in bad : i <= j].exc

(***************************************************************************)
(* Specification of the coercion on bounded reply objects: an object that  *)
(* is empty or complete, with one field replaced by any JSON value or      *)
(* removed.                                                                *)
(***************************************************************************)
CompleteObject ==
    [k \in {ReasonKey(i) : i \in 1..7} \cup {ItemKey(i) : i \in 1..7} |->
        IF k[1] = "item_" THEN PyInt(5) ELSE PyStr(<<"a">>)]

WithField(d, k, v) == [x \in DOMAIN d \cup {k} |-> IF x = k THEN v ELSE d[x]]

WithoutField(d, k) == [x \in DOMAIN d \ {k} |-> d[x]]

CoerceInputs ==
    {EmptyDict, CompleteObject}
    \cup {WithField(d, k, v) : d \in {EmptyDict, CompleteObject},
                               k \in DOMAIN CompleteObject, v \in JsonValues}
    \cup {WithoutField(CompleteObject, k) : k \in DOMAIN CompleteObject}

InitCoerce ==
    /\ pipeline = "coerce"
    /\ pc = "coerce"
    /\ text = <<>>
    /\ score = NoScore
    /\ data \in CoerceInputs
    /\ reasons = <<>>
    /\ items = <<>>
    /\ exc = "none"
    /\ BatchIdle

\* lines 291-308 completing: both mappings are built
CoerceRow ==
    /\ pipeline = "coerce"
    /\ pc = "coerce"
    /\ CoerceRaises(data) = "none"
    /\ reasons' = CoerceReasons(data)
    /\ items' = CoerceItems(data)
    /\ pc' = "coerced"
    /\ UNCHANGED <<pipeline, text, score, data, exc, bvars, pvars>>

\* lines 291-308 raising: the exception leaves run_study
CoerceFails ==
    /\ pipeline = "coerce"
    /\ pc = "coerce"
    /\ CoerceRaises(data) # "none"
    /\ reasons' = CoerceReasons(data)
    /\ exc' = CoerceRaises(data)
    /\ pc' = "aborted"
    /\ UNCHANGED <<pipeline, text, score, data, items, bvars, pvars>>

NextCoerce == CoerceRow \/ CoerceFails

SpecCoerce == InitCoerce /\ [][NextCoerce]_vars

\* what the claim gives for a field value: an integer for an integer, a float
\* (truncated) or a string matching ^-?\d+$ once trimmed, null for the rest
IsNumericString(v) == v.t = "str" /\ NumMatch(Strip(v.s))

ClaimedItem(v) ==
    IF v.t = "int" THEN v
    ELSE IF v.t = "float" /\ "tenths" \in DOMAIN v THEN PyInt(TruncTenths(v.tenths))
    ELSE IF IsNumericString(v) THEN PyInt(IntOfStr(Strip(v.s)))
    ELSE None

\* C2: for each of the 7 item fields and every JSON value shape of it, the
\* emitted item is an integer for an integer, a float or a numeric string,
\* and null for every other shape (missing, null, boolean, other strings,
\* array, object): an emitted item is always an integer or null.
C2_ItemIsIntegerOrNull ==
    (pipeline = "coerce" /\ pc = "coerced")
        => \A i \in 1..7 :
              /\ items[i] = ClaimedItem(Get(data, ITEM_KEYS[i]))
              /\ items[i].t \in {"int", "null"}

\* C3: the coercion is total: for every object chat_completion_json can
\* return, it completes without raising.
C3_CoercionNeverRaises ==
    pipeline = "coerce" => (exc = "none" /\ pc # "aborted")

(***************************************************************************)
(* Prompt materials of the structured pipeline (lines 32-33, 96-179).      *)
(* A prompt is a sequence of text pieces; the long fixed pieces are        *)
(* abbreviated, the placeholders and the injected values are pieces of     *)
(* their own.  The Mandarin pieces are transliterated.                     *)
(***************************************************************************)
DATE_EN == "October 24th, 2025"

\* 2025年10月24日
DATE_ZH == "2025-nian 10-yue 24-ri"

SYSTEM_ROLE_PROMPT == "I am a professor in the marketing research domain. [...]"

BEGIN_USER == "Let's begin!"

EN_HEADER_PREFIX ==
    <<"You are participating in a survey study. [...] Today is ", "{DATE_EN}",
      ". You are a native Mandarin speaker who also speaks fluent English, currently living in the US. ">>

EN_BRACKET_TEMPLATE == <<"You are [", "{gender_en}", ", ", "{age}", "] years old. ">>

EN_HEADER_SUFFIX == <<"Your task is to read the message below carefully [...] all the time.\n\n">>

JSON_INSTRUCTION == <<"Your answer should be in json format, the 14 attributes are called reason_1, item_1, [...]\n\n">>

EN_APPEAL_AND_ITEMS == <<"Imagine seeing a boy enduring the pain of hunger [...] 1= yes, 0 = skip.\n">>

\* 您正在参与一项问卷调查。[...] 今天是{DATE_ZH}。您是一位母语为普通话的人，[...]
ZH_PREFIX ==
    <<"Nin zhengzai canyu yi xiang wenjuan diaocha. [...] Jintian shi ", "{DATE_ZH}",
      ". Nin shi yi wei muyu wei putonghua de ren, [...] muqian juzhu zai Meiguo. ">>

\* 您是[{gender_zh}，{age}岁]。
ZH_BRACKET_TEMPLATE == <<"Nin shi [", "{gender_zh}", ", ", "{age}", " sui]. ">>

ZH_SUFFIX == <<"Nin de renwu shi zixi yuedu yixia xinxi bing huida wenti. [...]\n\n">>

ZH_APPEAL_AND_ITEMS == <<"Xiangxiang yixia, yi ge xiao nanhai [...] 1 = yuanyi canjia, 0 = tiaoguo.">>

\* str.format(**args): each placeholder piece named in args becomes its value
Format(tmpl, args) ==
    [k \in 1..Len(tmpl) |-> IF tmpl[k] \in DOMAIN args THEN args[tmpl[k]] ELSE tmpl[k]]

\* the injected line put in front of the header instead of after it
build_english_prompt_mutant(gender_en, age) ==
    LET injected_line ==
            Format(EN_BRACKET_TEMPLATE, ("{gender_en}" :> gender_en) @@ ("{age}" :> ToString(age)))
    IN  injected_line \o EN_HEADER_PREFIX \o EN_HEADER_SUFFIX \o JSON_INSTRUCTION
        \o EN_APPEAL_AND_ITEMS

\* lines 130-138
build_english_prompt(gender_en, age) ==
    LET injected_line ==
            Format(EN_BRACKET_TEMPLATE, ("{gender_en}" :> gender_en) @@ ("{age}" :> ToString(age)))
    IN  EN_HEADER_PREFIX \o injected_line \o EN_HEADER_SUFFIX \o JSON_INSTRUCTION
        \o EN_APPEAL_AND_ITEMS

\* lines 171-179
build_mandarin_prompt(gender_zh, age) ==
    LET injected_line ==
            Format(ZH_BRACKET_TEMPLATE, ("{gender_zh}" :> gender_zh) @@ ("{age}" :> ToString(age)))
    IN  ZH_PREFIX \o injected_line \o ZH_SUFFIX \o JSON_INSTRUCTION \o ZH_APPEAL_AND_ITEMS

\* lines 245-253: <<label, prompt>>
build_questionnaire(questionnaire_lang, gender_en, gender_zh, age) ==
    IF questionnaire_lang = "English"
    THEN <<"English", build_english_prompt(gender_en, age)>>
    ELSE <<"Mandarin", build_mandarin_prompt(gender_zh, age)>>

(***************************************************************************)
(* load_profiles_from_xlsx (lines 43-91).  The table is a record           *)
(* [cols, rows]: cols says whether the Age and Gender columns resolve,     *)
(* and each row is [age, gender] with a cell <<>> when it is missing (NaN) *)
(* and <<n>> when it holds n.                                              *)
(***************************************************************************)
GenderCodes == {1, 2, 3, 4}

\* map_gender, called at line 88 and defined nowhere in the file: the mapping
\* the docstring of load_profiles_from_xlsx (lines 48-52) states, rejecting
\* every other code.  男, 女, 第三性别, 不透露 are transliterated.
map_gender(code) ==
    CASE code = 1 -> [ok |-> TRUE, en |-> "male", zh |-> "nan"]
      [] code = 2 -> [ok |-> TRUE, en |-> "female", zh |-> "nv"]
      [] code = 3 -> [ok |-> TRUE, en |-> "non-binary", zh |-> "di-san xingbie"]
      [] code = 4 -> [ok |-> TRUE, en |-> "prefer not to say", zh |-> "bu toulu"]
      [] OTHER -> [ok |-> FALSE, en |-> "", zh |-> ""]

IsNa(cell) == cell = <<>>

\* a table that is only required to hold at least n rows
RowCountOkMutant(f, n) == Len(f.rows) >= n

\* line 76
RowCountOk(f, n) == Len(f.rows) = n

\* lines 80-82
NoMissingCell(f) == \A k \in 1..Len(f.rows) : ~IsNa(f.rows[k].age) /\ ~IsNa(f.rows[k].gender)

\* the two labels unpacked in the wrong order
ProfileOfRowMutant(row) ==
    LET g == map_gender(row.gender[1])
    IN  [age |-> row.age[1], gender_en |-> g.zh, gender_zh |-> g.en]

\* lines 86-89 for one row
ProfileOfRow(row) ==
    LET g == map_gender(row.gender[1])
    IN  [age |-> row.age[1], gender_en |-> g.en, gender_zh |-> g.zh]

\* the whole function: [ok, exc, profiles]
load_profiles_from_xlsx(f, n) ==
    IF ~f.cols THEN [ok |-> FALSE, exc |-> "ValueError", profiles |-> <<>>]
    ELSE IF ~RowCountOk(f, n) THEN [ok |-> FALSE, exc |-> "ValueError", profiles |-> <<>>]
    ELSE IF ~NoMissingCell(f) THEN [ok |-> FALSE, exc |-> "ValueError", profiles |-> <<>>]
    ELSE IF \E k \in 1..Len(f.rows) : ~map_gender(f.rows[k].gender[1]).ok
    THEN [ok |-> FALSE, exc |-> "ValueError", profiles |-> <<>>]
    ELSE [ok |-> TRUE, exc |-> "none",
          profiles |-> [k \in 1..Len(f.rows) |-> ProfileOfRow(f.rows[k])]]

\* the tables of the bounded model: a well-formed table of n rows, the same
\* table with another gender code in its first row, and the same table with
\* a row dropped or added, a cell emptied, a gender code outside 1..4, or
\* without the columns
GoodRow(k) == [age |-> <<18 + k>>, gender |-> <<((k - 1) % 4) + 1>>]

GoodRows(n) == [k \in 1..n |-> GoodRow(k)]

SetCell(rs, k, fld, cell) == [rs EXCEPT ![k] = [rs[k] EXCEPT ![fld] = cell]]

Tables(n) ==
    {[cols |-> c, rows |-> GoodRows(m)] : c \in BOOLEAN, m \in {n - 1, n, n + 1}}
    \cup {[cols |-> TRUE, rows |-> SetCell(GoodRows(n), k, fld, <<>>)] :
            k \in 1..n, fld \in {"age", "gender"}}
    \cup {[cols |-> TRUE, rows |-> SetCell(GoodRows(n), 1, "gender", <<g>>)] :
            g \in {1, 2, 3, 4}}
    \cup {[cols |-> TRUE, rows |-> SetCell(GoodRows(n), k, "gender", <<g>>)] :
            k \in 1..n, g \in {0, 5}}

(***************************************************************************)
(* chat_completion_json (lines 186-241).  A reply of the service is        *)
(*   [kind |-> "error"]                      the call raised               *)
(*   [kind |-> "invalid"]                    content json.loads rejects    *)
(*   [kind |-> "json", value |-> v]          content parsing to a non-dict *)
(*   [kind |-> "object", obj |-> d]          content parsing to the dict d *)
(*   [kind |-> "text", lines |-> ls]         free text, as its lines       *)
(***************************************************************************)
ApiError == [kind |-> "error"]

InvalidJson == [kind |-> "invalid"]

JsonValue(v) == [kind |-> "json", value |-> v]

JsonObject(d) == [kind |-> "object", obj |-> d]

FreeText(ls) == [kind |-> "text", lines |-> ls]

\* any non-empty object accepted
LooksExpectedMutant(parsed) == parsed # EmptyDict

\* line 203: some key starts with "reason_" or with "item_"

LooksExpected(parsed) == \E k \in DOMAIN parsed : k[1] \in {"reason_", "item_"}

\* lines 191-206: whether the JSON-mode attempt returns the parsed object
\* (otherwise it raised, or fell out of the if, and the fallback follows)
JsonAttemptReturns(r) == r.kind = "object" /\ LooksExpected(r.obj)

\* a line of free text: "reason_<n>: <text>", "item_<n>: <digits>", or prose
ReasonLine(n, cs) == [kind |-> "reason", n |-> n, val |-> cs]

ItemLine(n, cs) == [kind |-> "item", n |-> n, val |-> cs]

ProseLine == [kind |-> "prose", n |-> 0, val |-> <<>>]

\* lines 225-229: the last line of the kind numbered n, or 0
LastLine(ls, kind, n) ==
    LET hits == {k \in 1..Len(ls) : ls[k].kind = kind /\ ls[k].n = n}
    IN  IF hits = {} THEN 0 ELSE CHOOSE k \in hits : \A j \in hits : j <= k

\* lines 232-236: the combined dictionary
CombinedDict(ls) ==
    [k \in DOMAIN CompleteObject |->
        LET at == LastLine(ls, IF k[1] = "item_" THEN "item" ELSE "reason", k[2])
        IN  IF k[1] = "item_"
            THEN (IF at = 0 THEN None ELSE PyInt(IntValue(ls[at].val)))
            ELSE (IF at = 0 THEN PyStr(<<>>) ELSE PyStr(Strip(ls[at].val)))]

\* lines 210-241: what the fallback attempt returns for the reply r
FallbackData(r) == IF r.kind = "text" THEN CombinedDict(r.lines) ELSE EmptyDict

\* the replies of the bounded model
StudyObjects ==
    {EmptyDict,
     (<<"answer", 0>> :> PyInt(3)),
     (ItemKey(8) :> PyInt(3)),
     CompleteObject,
     WithField(CompleteObject, ItemKey(1), PyNonFinite("inf"))}

JsonReplies ==
    {ApiError, InvalidJson, JsonValue(PyList)} \cup {JsonObject(d) : d \in StudyObjects}

TextReplies ==
    {ApiError,
     FreeText(<<ProseLine>>),
     FreeText(<<ReasonLine(1, <<"a", " ">>), ItemLine(1, <<"5">>), ItemLine(1, <<"3">>),
                ItemLine(8, <<"3">>)>>)}

(***************************************************************************)
(* run_study (lines 256-342).                                              *)
(***************************************************************************)
\* lines 261-263: the shuffled design, any order of n \div 2 entries per level
Shuffles(n) ==
    {d \in [1..(2 * (n \div 2)) -> {"English", "Mandarin"}] :
        Cardinality({k \in DOMAIN d : d[k] = "English"}) = n \div 2}

\* lines 276-287
Messages(prompt_text) ==
    <<[role |-> "system", content |-> <<SYSTEM_ROLE_PROMPT>>],
      [role |-> "user",
       content |-> <<BEGIN_USER,
                     "\n\nPlease answer strictly in JSON format using the structure described below.\n\n">>
                   \o prompt_text]>>

Questionnaire(k) ==
    build_questionnaire(design[k], profiles[k].gender_en, profiles[k].gender_zh,
                        profiles[k].age)

\* lines 310-322
StudyRow(k, rs, its) ==
    [participant_id |-> k,
     native_language |-> "Mandarin",
     second_language |-> "English",
     questionnaire_language |-> Questionnaire(k)[1],
     age |-> profiles[k].age,
     gender_en |-> profiles[k].gender_en,
     gender_zh |-> profiles[k].gender_zh,
     reasons |-> rs,
     items |-> its]

InitStudy ==
    /\ pipeline = "study"
    /\ pc = "start"
    /\ exc = "none"
    /\ text = <<>>
    /\ score = NoScore
    /\ data = <<>>
    /\ reasons = <<>>
    /\ items = <<>>
    /\ n_target = N_TARGET
    /\ file \in Tables(N_TARGET)
    /\ profiles = <<>>
    /\ design = <<>>
    /\ idx = 0
    /\ calls = <<>>
    /\ ncalls = 0
    /\ rows = <<>>
    /\ jsonl_lines = <<>>
    /\ output = <<>>
    /\ cond = 0
    /\ inputs = <<>>
    /\ prompts = <<>>

\* lines 258-265: load the profiles (a failure leaves run_study), build and
\* shuffle the design, enter the loop
LoadProfiles ==
    /\ pipeline = "study"
    /\ pc = "start"
    /\ LET res == load_profiles_from_xlsx(file, n_target)
       IN  IF ~res.ok
           THEN /\ exc' = res.exc
                /\ pc' = "aborted"
                /\ UNCHANGED <<profiles, design, idx>>
           ELSE /\ profiles' = res.profiles
                /\ design' \in Shuffles(n_target)
                /\ idx' = 1
                /\ pc' = IF Len(res.profiles) >= 1 THEN "call" ELSE "save"
                /\ exc' = "none"
    /\ UNCHANGED <<pipeline, fvars, n_target, file, calls, ncalls, rows, jsonl_lines, output,
                   pvars>>

\* lines 267-289 and 191-206: the prompt of participant idx is built and the
\* JSON-mode call issued; its reply is returned or leads to the fallback
JsonCall ==
    /\ pipeline = "study"
    /\ pc = "call"
    /\ IF idx > Len(design)
       THEN /\ exc' = "IndexError"
            /\ pc' = "aborted"
            /\ UNCHANGED <<calls, ncalls, data>>
       ELSE \E r \in JsonReplies :
               /\ calls' = <<[mode |-> "json",
                              messages |-> Messages(Questionnaire(idx)[2]),
                              reply |-> r]>>
               /\ ncalls' = ncalls + 1
               /\ IF JsonAttemptReturns(r)
                  THEN data' = r.obj /\ pc' = "coerce"
                  ELSE data' = <<>> /\ pc' = "fallback"
               /\ exc' = "none"
    /\ UNCHANGED <<pipeline, text, score, reasons, items, n_target, file, profiles, design,
                   idx, rows, jsonl_lines, output, pvars>>

\* lines 208-241: the free-text call with the same messages; its reply is
\* scanned for reason_<n> / item_<n> lines, or the attempt fails and the
\* empty dict is returned
FallbackCall ==
    /\ pipeline = "study"
    /\ pc = "fallback"
    /\ \E r \in TextReplies :
          /\ calls' = Append(calls, [mode |-> "text",
                                     messages |-> calls[1].messages,
                                     reply |-> r])
          /\ data' = FallbackData(r)
    /\ ncalls' = ncalls + 1
    /\ pc' = "coerce"
    /\ UNCHANGED <<pipeline, exc, text, score, reasons, items, n_target, file, profiles,
                   design, idx, rows, jsonl_lines, output, pvars>>

\* AppendRow overwriting the last row in place instead of appending
AppendRowMutant ==
    /\ pipeline = "study"
    /\ pc = "coerce"
    /\ CoerceRaises(data) = "none"
    /\ reasons' = CoerceReasons(data)
    /\ items' = CoerceItems(data)
    /\ rows' = IF rows = <<>> THEN <<StudyRow(idx, reasons', items')>>
               ELSE [rows EXCEPT ![Len(rows)] = StudyRow(idx, reasons', items')]
    /\ jsonl_lines' = rows'
    /\ idx' = idx + 1
    /\ pc' = IF idx < Len(profiles) THEN "call" ELSE "save"
    /\ UNCHANGED <<pipeline, exc, text, score, data, n_target, file, profiles, design,
                   calls, ncalls, output, pvars>>

\* lines 289-330: the coercion completes and the row is appended
AppendRow ==
    /\ pipeline = "study"
    /\ pc = "coerce"
    /\ CoerceRaises(data) = "none"
    /\ reasons' = CoerceReasons(data)
    /\ items' = CoerceItems(data)
    /\ rows' = Append(rows, StudyRow(idx, reasons', items'))
    /\ jsonl_lines' = Append(jsonl_lines, StudyRow(idx, reasons', items'))
    /\ idx' = idx + 1
    /\ pc' = IF idx < Len(profiles) THEN "call" ELSE "save"
    /\ UNCHANGED <<pipeline, exc, text, score, data, n_target, file, profiles, design,
                   calls, ncalls, output, pvars>>

\* lines 299-308 raising: the exception leaves run_study, nothing is saved
CoercionRaises ==
    /\ pipeline = "study"
    /\ pc = "coerce"
    /\ CoerceRaises(data) # "none"
    /\ reasons' = CoerceReasons(data)
    /\ exc' = CoerceRaises(data)
    /\ pc' = "aborted"
    /\ UNCHANGED <<pipeline, text, score, data, items, bvars, pvars>>

\* lines 332-342
SaveStudy ==
    /\ pipeline = "study"
    /\ pc = "save"
    /\ output' = rows
    /\ pc' = "done"
    /\ UNCHANGED <<pipeline, exc, fvars, n_target, file, profiles, design, idx, calls,
                   ncalls, rows, jsonl_lines, pvars>>

NextStudy ==
    \/ LoadProfiles
    \/ JsonCall
    \/ FallbackCall
    \/ AppendRow
    \/ CoercionRaises
    \/ SaveStudy

SpecStudy == InitStudy /\ [][NextStudy]_vars

(***************************************************************************)
(* Properties of chat_completion_json and run_study.                       *)
(***************************************************************************)
ExpectedKeys == {ReasonKey(k) : k \in 1..7} \cup {ItemKey(k) : k \in 1..7}

\* the reply is a JSON object holding one of reason_1..reason_7, item_1..item_7
YieldsExpectedKey(r) == r.kind = "object" /\ (DOMAIN r.obj) \cap ExpectedKeys # {}

\* the reply is a JSON object holding a key that begins with reason_ or item_
YieldsPrefixedKey(r) ==
    r.kind = "object" /\ \E k \in DOMAIN r.obj : k[1] = "reason_" \/ k[1] = "item_"

\* the calls of one prompt: the JSON-mode call first, the free-text call with
\* the same messages exactly when the first attempt did not yield (firstYielded
\* says whether it did), never more than two calls
FallbackRule(firstYielded) ==
    (pipeline = "study" /\ calls # <<>>) =>
        /\ calls[1].mode = "json"
        /\ Len(calls) <= 2
        /\ ncalls <= 2 * idx
        /\ (pc = "fallback" => (Len(calls) = 1 /\ ~firstYielded))
        /\ (pc # "fallback" => ((Len(calls) = 2) <=> ~firstYielded))
        /\ (Len(calls) = 2 =>
              (calls[2].mode = "text" /\ calls[2].messages = calls[1].messages))

\* C4 (as claimed): the free-text fallback is issued exactly when the JSON-mode
\* attempt did not yield a JSON object containing one of the expected keys
\* reason_1..reason_7, item_1..item_7; it uses the identical messages, is
\* issued at most once, and no prompt gets more than two calls.
C4_FallbackIffNoExpectedKey == FallbackRule(YieldsExpectedKey(calls[1].reply))

\* C4 (amended): the same, the fallback being issued exactly when the JSON-mode
\* attempt did not yield a JSON object containing a key that begins with
\* reason_ or item_.
C4_FallbackIffNoPrefixedKey == FallbackRule(YieldsPrefixedKey(calls[1].reply))

\* a prompt whose JSON object had no such key got the fallback call
C4_Witness ==
    /\ pipeline = "study"
    /\ pc = "coerce"
    /\ Len(calls) = 2
    /\ calls[1].reply.kind = "object"
    /\ calls[2].mode = "text"

\* both attempts for the current prompt failed
DoubleFailure == Len(calls) = 2 /\ calls[2].reply.kind = "error"

\* after a double failure: the empty result, then the row of that participant
\* with the given defaults, and the loop at the next participant (or at the
\* end when there is none)
DoubleFailureRule(itemDefault, reasonDefault) ==
    (pipeline = "study" /\ DoubleFailure) =>
        /\ exc = "none"
        /\ pc \in {"coerce", "call", "save", "done"}
        /\ (pc = "coerce" => (data = EmptyDict /\ Len(rows) = idx - 1))
        /\ (pc # "coerce" =>
              /\ Len(rows) = idx - 1
              /\ rows[idx - 1].participant_id = idx - 1
              /\ \A k \in 1..7 : /\ rows[idx - 1].items[k] = itemDefault
                                 /\ rows[idx - 1].reasons[k] = reasonDefault
              /\ jsonl_lines[idx - 1] = rows[idx - 1])
        /\ (pc = "call" => idx <= Len(profiles))
        /\ (pc \in {"save", "done"} => idx = Len(profiles) + 1)
        /\ (pc = "done" => Len(output) = n_target)

\* C5 (as claimed): when both attempts fail, chat_completion_json returns the
\* empty result, the participant's row is emitted with all extracted fields
\* null, and the batch goes on.
C5_RowAllNull == DoubleFailureRule(None, None)

\* C5 (amended): when both attempts fail, chat_completion_json returns the
\* empty result, the participant's row is emitted with every item field null
\* and every reason field the empty string, and the batch goes on with the
\* next participant.
C5_RowItemsNullReasonsEmpty == DoubleFailureRule(None, PyStr(<<>>))

\* participant 1 failed twice and the loop is at participant 2
C5_Witness ==
    /\ pipeline = "study"
    /\ pc = "call"
    /\ idx = 2
    /\ DoubleFailure
    /\ Len(rows) = 1

\* the table has not exactly N rows, or a required cell is missing
BadTable ==
    \/ Len(file.rows) # n_target
    \/ \E k \in 1..Len(file.rows) : file.rows[k].age = <<>> \/ file.rows[k].gender = <<>>

\* C6: with a table of another row count than N, or with a missing Age or
\* Gender cell, load_profiles_from_xlsx fails with a validation error, and
\* run_study has then issued no external call and produced no row.
C6_BadTableFailsBeforeAnyCall ==
    (pipeline = "study" /\ BadTable /\ pc # "start") =>
        /\ pc = "aborted"
        /\ exc = "ValueError"
        /\ ncalls = 0
        /\ calls = <<>>
        /\ rows = <<>>
        /\ output = <<>>

\* a table of N + 1 rows was rejected
C6_Witness ==
    /\ pipeline = "study"
    /\ pc = "aborted"
    /\ exc = "ValueError"
    /\ Len(file.rows) = n_target + 1
    /\ file.cols
    /\ ncalls = 0

\* the labels of the claim: 男, 女, 第三性别, 不透露 transliterated
GenderLabelEn(code) ==
    CASE code = 1 -> "male" [] code = 2 -> "female" [] code = 3 -> "non-binary"
      [] code = 4 -> "prefer not to say"

GenderLabelZh(code) ==
    CASE code = 1 -> "nan" [] code = 2 -> "nv" [] code = 3 -> "di-san xingbie"
      [] code = 4 -> "bu toulu"

ObjectTokens == {"A", "B"}

\* json.loads of an object token
ObjectOf(tok) ==
    IF tok = "A" THEN [age |-> 35, gender |-> "male"] ELSE [age |-> 20, gender |-> "female"]

\* line 13: the fences are removed
RECURSIVE StripFences(_)
StripFences(t) ==
    IF t = <<>> THEN <<>>
    ELSE IF Head(t) = "F" THEN StripFences(Tail(t))
    ELSE <<Head(t)>> \o StripFences(Tail(t))

\* line 14: re.search(r"\[\s*{.*?}\s*\]"): the leftmost "[" directly followed
\* by an object, up to the first later object directly followed by "]";
\* <<first, last>> or <<>>
ArrayMatch(t) ==
    LET ends(s) == {e \in (s + 1)..(Len(t) - 1) : t[e] \in ObjectTokens /\ t[e + 1] = "]"}
        starts == {s \in 1..Len(t) :
                      /\ t[s] = "["
                      /\ s + 1 <= Len(t)
                      /\ t[s + 1] \in ObjectTokens
                      /\ ends(s) # {}}
    IN  IF starts = {} THEN <<>>
        ELSE LET s == CHOOSE x \in starts : \A y \in starts : x <= y
                 e == CHOOSE x \in ends(s) : \A y \in ends(s) : x <= y
             IN  <<s, e + 1>>

\* whether json.loads accepts the matched text: "[", objects separated by
\* commas, "]"
IsJsonArray(t) ==
    /\ Len(t) >= 3
    /\ Len(t) % 2 = 1
    /\ t[1] = "["
    /\ t[Len(t)] = "]"
    /\ \A k \in 2..(Len(t) - 1) :
          IF k % 2 = 0 THEN t[k] \in ObjectTokens ELSE t[k] = ","

\* lines 12-21
extract_json_array(reply) ==
    LET t == StripFences(reply)
        m == ArrayMatch(t)
    IN  IF m = <<>> THEN <<>>
        ELSE LET sub == SubSeq(t, m[1], m[2])
             IN  IF IsJsonArray(sub)
                 THEN [k \in 1..((Len(sub) - 1) \div 2) |-> ObjectOf(sub[2 * k])]
                 ELSE <<>>

\* lines 24-45: r is [kind |-> "error"] or [kind |-> "tokens", tokens |-> t]
generate_profiles(r) == IF r.kind = "error" THEN <<>> ELSE extract_json_array(r.tokens)

\* the array text of k objects
RECURSIVE ArrayBody(_)
ArrayBody(k) ==
    IF k = 0 THEN <<>>
    ELSE IF k = 1 THEN <<"A">>
    ELSE ArrayBody(k - 1) \o <<",", IF k % 2 = 1 THEN "A" ELSE "B">>

ArrayText(k) == <<"[">> \o ArrayBody(k) \o <<"]">>

TokenReply(t) == [kind |-> "tokens", tokens |-> t]

\* the replies of the bounded model: arrays of up to one profile more than
\* asked for, bare, fenced or inside other text, and replies without a
\* valid array
ProfileReplies ==
    {ApiError}
    \cup {TokenReply(pre \o ArrayText(k) \o post) :
            k \in 0..(AskedProfiles + 1),
            pre \in {<<>>, <<"F">>, <<"t">>}, post \in {<<>>, <<"F">>, <<"t">>}}
    \cup {TokenReply(t) : t \in {<<"t">>, <<"[", "A">>, <<"[", "A", "t", "]">>,
                                 <<"[", "A", "B", "]">>, <<"[", "A", ",", "]">>,
                                 <<"t", "[", "A", "]", "t", "[", "B", "]">>}}

\* lines 115-124
conditions ==
    <<(<<"English", "Indonesian", "US">>),
      (<<"English", "Indonesian", "Indonesia">>),
      (<<"English", "English", "US">>),
      (<<"English", "English", "Indonesia">>),
      (<<"Indonesian", "Indonesian", "US">>),
      (<<"Indonesian", "Indonesian", "Indonesia">>),
      (<<"Indonesian", "English", "US">>),
      (<<"Indonesian", "English", "Indonesia">>)>>

\* lines 50-63, the fixed text with its replacement fields
DONATION_EN_TEMPLATE ==
    <<"You are participating in a survey study. [...] Today is September 13, 2025. You are a native ",
      "{native_language}", " speaker who also speaks fluent ", "{second_language}",
      ", currently living in ", "{country}", ". You are ", "{gender}", ", ", "{age}",
      " years old. Your task is to read the message below carefully and answer questions afterwards.\n\n",
      "Imagine seeing a boy enduring the pain of hunger [...] 1 = Not at all; 7 = Very likely. Explain your answer.">>

\* lines 65-78
DONATION_ID_TEMPLATE ==
    <<"Anda berpartisipasi dalam sebuah survei. [...] Hari ini, 13 September 2025. Anda adalah penutur asli ",
      "{native_language}", " yang juga fasih berbahasa ", "{second_language}",
      ", dan saat ini tinggal di ", "{country}", ". Anda seorang ", "{gender}", ", berusia ", "{age}",
      " tahun. Tugas Anda adalah membaca pesan di bawah ini dengan saksama dan menjawab pertanyaan setelahnya.\n\n",
      "Bayangkan melihat seorang anak laki-laki [...] 1 = Tidak sama sekali; 7 = Sangat mungkin. Jelaskan jawaban Anda.">>

\* line 54
SecondLanguageEn(native_language) ==
    IF native_language = "Indonesian" THEN "English" ELSE "Indonesian"

\* line 69
SecondLanguageId(native_language) ==
    IF native_language = "Indonesia" THEN "Inggris" ELSE "Indonesia"

DonationArgs(native_language, second, country, gender, age) ==
    ("{native_language}" :> native_language) @@ ("{second_language}" :> second)
    @@ ("{country}" :> country) @@ ("{gender}" :> gender) @@ ("{age}" :> ToString(age))

\* lines 48-78
create_donation_prompt(language, native_language, country, gender, age) ==
    IF language = "English"
    THEN Format(DONATION_EN_TEMPLATE,
                DonationArgs(native_language, SecondLanguageEn(native_language),
                             country, gender, age))
    ELSE Format(DONATION_ID_TEMPLATE,
                DonationArgs(native_language, SecondLanguageId(native_language),
                             country, gender, age))

\* lines 93-106: the reply text, or "ERROR" when the call raised
ErrorText == <<"E", "R", "R", "O", "R">>

get_gpt_response(r) == IF r.kind = "error" THEN ErrorText ELSE r.tokens

\* the replies to a survey prompt in the bounded model
SurveyReplies == {ApiError, TokenReply(<<"8", " ", "4">>)}

\* the calls of get_gpt_response that raised so far
Failures == Cardinality({k \in 1..Len(rows) : rows[k].response = ErrorText})

\* lines 135-143
SimRow(c, p, sc, response) ==
    [survey_language |-> conditions[c][1],
     native_language |-> conditions[c][2],
     country |-> conditions[c][3],
     age |-> profiles[p].age,
     gender |-> profiles[p].gender,
     score |-> sc,
     response |-> response]

InitSim ==
    /\ pipeline = "sim"
    /\ pc = "start"
    /\ exc = "none"
    /\ text = <<>>
    /\ score = NoScore
    /\ data = <<>>
    /\ reasons = <<>>
    /\ items = <<>>
    /\ BatchIdle

\* lines 110-114: the profiles are requested; with none, run_simulation returns
GenerateProfiles ==
    /\ pipeline = "sim"
    /\ pc = "start"
    /\ \E r \in ProfileReplies :
          /\ profiles' = generate_profiles(r)
          /\ pc' = IF profiles' = <<>> THEN "returned" ELSE "loop"
          /\ cond' = IF profiles' = <<>> THEN 0 ELSE 1
          /\ idx' = IF profiles' = <<>> THEN 0 ELSE 1
    /\ ncalls' = ncalls + 1
    /\ UNCHANGED <<pipeline, exc, fvars, n_target, file, design, calls, rows, jsonl_lines,
                   output, inputs, prompts>>

\* lines 126-145: one pass of the inner loop for condition cond and profile idx
SurveyCall ==
    /\ pipeline = "sim"
    /\ pc = "loop"
    /\ \E r \in SurveyReplies :
          /\ r.kind = "error" => Failures < MaxFailures
          /\ prompts' = <<create_donation_prompt(conditions[cond][1], conditions[cond][2],
                                                 conditions[cond][3], profiles[idx].gender,
                                                 profiles[idx].age)>>
          /\ text' = get_gpt_response(r)
          /\ score' = extract_score(text')
          /\ rows' = Append(rows, SimRow(cond, idx, score', text'))
    /\ ncalls' = ncalls + 1
    /\ IF idx < Len(profiles)
       THEN idx' = idx + 1 /\ cond' = cond /\ pc' = "loop"
       ELSE IF cond < Len(conditions)
       THEN idx' = 1 /\ cond' = cond + 1 /\ pc' = "loop"
       ELSE idx' = idx /\ cond' = cond /\ pc' = "save"
    /\ UNCHANGED <<pipeline, exc, data, reasons, items, n_target, file, profiles, design,
                   calls, jsonl_lines, output, inputs>>

\* lines 147-149
SaveSim ==
    /\ pipeline = "sim"
    /\ pc = "save"
    /\ output' = rows
    /\ pc' = "done"
    /\ UNCHANGED <<pipeline, exc, fvars, n_target, file, profiles, design, idx, cond, calls,
                   ncalls, rows, jsonl_lines, inputs, prompts>>

NextSim == GenerateProfiles \/ SurveyCall \/ SaveSim

SpecSim == InitSim /\ [][NextSim]_vars

\* C7: each profile source returns exactly the required number of profiles or
\* signals failure so that the run is aborted: the batch loop of
\* run_simulation never runs over a profile sequence whose length differs
\* from the number asked for.
C7_LoopOverRequiredCount ==
    (pipeline = "sim" /\ pc \in {"loop", "save", "done"}) => Len(profiles) = AskedProfiles

\* the language a word of the prompt names
LanguageOf(word) ==
    CASE word \in {"English", "Inggris"} -> "en"
      [] word \in {"Indonesian", "Indonesia"} -> "id"
      [] OTHER -> "other"

\* C9: in every prompt run_simulation renders for its 8 conditions, the second
\* language written into the prompt is the complement of the stated native
\* language within {English, Indonesian}: the prompt never names one
\* language as both native and second language.
C9_SecondLanguageIsComplement ==
    (pipeline = "sim" /\ prompts # <<>>) =>
        LET native == LanguageOf(prompts[1][2])
            second == LanguageOf(prompts[1][4])
        IN  /\ native \in {"en", "id"}
            /\ second \in {"en", "id"}
            /\ second # native

(***************************************************************************)
(* Specification of the three prompt builders as pure functions: two       *)
(* renders of one template, for two profiles (and conditions).             *)
(***************************************************************************)
Ages == {20, 35, 61}

StudyInputs(template) ==
    {[template |-> template, language |-> "", native_language |-> "", country |-> "",
      gender |-> IF template = "english" THEN map_gender(c).en ELSE map_gender(c).zh,
      age |-> a] : c \in GenderCodes, a \in Ages}

DonationInputs(language) ==
    {[template |-> "donation", language |-> language, native_language |-> n, country |-> c,
      gender |-> g, age |-> a] :
        n \in {"English", "Indonesian"}, c \in {"US", "Indonesia"},
        g \in {"male", "female"}, a \in Ages}

InputPairs ==
    UNION {S \X S : S \in {StudyInputs("english"), StudyInputs("mandarin"),
                            DonationInputs("English"), DonationInputs("Indonesian")}}

Render(a) ==
    CASE a.template = "english" -> build_english_prompt(a.gender, a.age)
      [] a.template = "mandarin" -> build_mandarin_prompt(a.gender, a.age)
      [] OTHER -> create_donation_prompt(a.language, a.native_language, a.country,
                                         a.gender, a.age)

InitPrompt ==
    /\ pipeline = "prompt"
    /\ pc = "start"
    /\ exc = "none"
    /\ text = <<>>
    /\ score = NoScore
    /\ data = <<>>
    /\ reasons = <<>>
    /\ items = <<>>
    /\ n_target = 0
    /\ file = <<>>
    /\ profiles = <<>>
    /\ design = <<>>
    /\ idx = 0
    /\ cond = 0
    /\ calls = <<>>
    /\ ncalls = 0
    /\ rows = <<>>
    /\ jsonl_lines = <<>>
    /\ output = <<>>
    /\ inputs \in InputPairs
    /\ prompts = <<>>

RenderPrompts ==
    /\ pipeline = "prompt"
    /\ pc = "start"
    /\ prompts' = <<Render(inputs[1]), Render(inputs[2])>>
    /\ pc' = "rendered"
    /\ UNCHANGED <<pipeline, exc, fvars, n_target, file, profiles, design, idx, cond, calls,
                   ncalls, rows, jsonl_lines, output, inputs>>

NextPrompt == RenderPrompts

SpecPrompt == InitPrompt /\ [][NextPrompt]_vars

\* the fixed template of a render, with its replacement fields
TemplateOf(a) ==
    CASE a.template = "english" ->
            EN_HEADER_PREFIX \o EN_BRACKET_TEMPLATE \o EN_HEADER_SUFFIX \o JSON_INSTRUCTION
            \o EN_APPEAL_AND_ITEMS
      [] a.template = "mandarin" ->
            ZH_PREFIX \o ZH_BRACKET_TEMPLATE \o ZH_SUFFIX \o JSON_INSTRUCTION
            \o ZH_APPEAL_AND_ITEMS
      [] a.language = "English" -> DONATION_EN_TEMPLATE
      [] OTHER -> DONATION_ID_TEMPLATE

\* the designated injection spans of the templates
InjectionFields ==
    {"{gender_en}", "{gender_zh}", "{age}", "{native_language}", "{second_language}",
     "{country}", "{gender}"}

\* C10: a rendered prompt equals the fixed template of its locale outside the
\* injection spans, so two renders of one template differ only inside them.
C10_IdenticalOutsideSpans ==
    (pipeline = "prompt" /\ pc = "rendered") =>
        LET tmpl == TemplateOf(inputs[1])
        IN  /\ \A j \in 1..2 :
                  /\ Len(prompts[j]) = Len(tmpl)
                  /\ \A k \in 1..Len(tmpl) :
                        tmpl[k] \notin InjectionFields => prompts[j][k] = tmpl[k]
            /\ \A k \in 1..Len(tmpl) :
                  prompts[1][k] # prompts[2][k] => tmpl[k] \in InjectionFields

\* two different profiles were rendered into one template
C10_Witness ==
    /\ pipeline = "prompt"
    /\ pc = "rendered"
    /\ inputs[1].template = "english"
    /\ inputs[1].gender # inputs[2].gender
    /\ inputs[1].age # inputs[2].age
    /\ prompts[1] # prompts[2]

(***************************************************************************)
(* The two batch loops together: run_simulation and run_study, each under  *)
(* every sequence of outcomes of the external service.                     *)
(***************************************************************************)
InitBatch == InitSim \/ InitStudy

NextBatch == NextSim \/ NextStudy

SpecBatch == InitBatch /\ [][NextBatch]_vars

\* the (condition, profile) combination of the k-th pass of run_simulation:
\* condition-major, profile-minor
SimCombination(k) ==
    <<((k - 1) \div Len(profiles)) + 1, ((k - 1) % Len(profiles)) + 1>>

\* the passes of the loop that were completed
Processed ==
    IF pipeline = "sim"
    THEN CASE pc = "loop" -> (cond - 1) * Len(profiles) + (idx - 1)
           [] pc \in {"save", "done"} -> Len(conditions) * Len(profiles)
           [] OTHER -> 0
    ELSE IF idx = 0 THEN 0 ELSE idx - 1

\* the rows are the completed passes, in iteration order
RowsInIterationOrder ==
    /\ Len(rows) = Processed
    /\ pipeline = "sim" =>
          \A k \in 1..Len(rows) :
             LET c == SimCombination(k)[1]
                 p == SimCombination(k)[2]
             IN  /\ rows[k].survey_language = conditions[c][1]
                 /\ rows[k].native_language = conditions[c][2]
                 /\ rows[k].country = conditions[c][3]
                 /\ rows[k].age = profiles[p].age
                 /\ rows[k].gender = profiles[p].gender
    /\ pipeline = "study" =>
          /\ jsonl_lines = rows
          /\ \A k \in 1..Len(rows) :
                /\ rows[k].participant_id = k
                /\ rows[k].questionnaire_language = design[k]
                /\ rows[k].age = profiles[k].age
                /\ rows[k].gender_en = profiles[k].gender_en
    /\ pc = "done" => output = rows

\* a step leaves the rows alone or appends one row to them, and writes the
\* output only as the rows
AppendOnlyStep ==
    /\ \/ rows' = rows
       \/ /\ Len(rows') = Len(rows) + 1
          /\ SubSeq(rows', 1, Len(rows)) = rows
    /\ output' # output => output' = rows

\* C11: under every sequence of service outcomes the result collection is
\* append-only and holds one row per completed pass in iteration order
\* (condition-major, profile-minor in run_simulation; participant_id 1, 2, ...
\* in run_study); no row is modified, removed or reordered once appended, and
\* the output written is the rows in that order.
C11_AppendOnlyInIterationOrder ==
    /\ [](pipeline \in {"sim", "study"} => RowsInIterationOrder)
    /\ [][AppendOnlyStep]_vars

\* run_study wrote both rows although both calls for the last participant
\* failed
C11_Witness ==
    /\ pipeline = "study"
    /\ pc = "done"
    /\ Len(output) = N_TARGET
    /\ Len(calls) = 2
    /\ calls[1].reply.kind = "error"
    /\ calls[2].reply.kind = "error"

(***************************************************************************)
(* run_study for other participant counts: line 30 is the one place the    *)
(* count is set ("update to match the actual number of participants"),     *)
(* and the loader accepts every table of exactly that many rows.           *)
(***************************************************************************)
\* the participant counts N_TARGET is set to
Targets == 1..(N_TARGET + 1)

InitDesign ==
    /\ pipeline = "study"
    /\ pc = "start"
    /\ exc = "none"
    /\ text = <<>>
    /\ score = NoScore
    /\ data = <<>>
    /\ reasons = <<>>
    /\ items = <<>>
    /\ n_target \in Targets
    /\ file \in Tables(n_target)
    /\ profiles = <<>>
    /\ design = <<>>
    /\ idx = 0
    /\ calls = <<>>
    /\ ncalls = 0
    /\ rows = <<>>
    /\ jsonl_lines = <<>>
    /\ output = <<>>
    /\ cond = 0
    /\ inputs = <<>>
    /\ prompts = <<>>

SpecDesign == InitDesign /\ [][NextStudy]_vars

\* the participants assigned the questionnaire language lvl
Assigned(lvl) == {k \in DOMAIN design : design[k] = lvl}

\* the loader accepted the table and the design was built
DesignBuilt == pipeline = "study" /\ pc \notin {"start"} /\ profiles # <<>>

\* C12: for every participant count N the loader accepts, the shuffled
\* design has one entry per participant and gives each of the two languages
\* to exactly N/2 participants, so the lookup design[i-1] of every
\* participant i in 1..N succeeds.
C12_DesignCoversEveryParticipant ==
    DesignBuilt =>
        /\ Len(profiles) = n_target
        /\ Len(design) = n_target
        /\ 2 * Cardinality(Assigned("English")) = n_target
        /\ 2 * Cardinality(Assigned("Mandarin")) = n_target
        /\ exc # "IndexError"

\* the lookup of the last participant of an odd count raised
C12_LookupRaised ==
    /\ pipeline = "study"
    /\ pc = "aborted"
    /\ exc = "IndexError"
    /\ n_target = N_TARGET + 1
    /\ idx = n_target
    /\ Len(rows) = n_target - 1
    /\ output = <<>>

(***************************************************************************)
(* Placeholders of the questionnaire prompts (SpecPrompt).                 *)
(***************************************************************************)
\* the replacement fields the templates of lines 96-179 contain
PlaceholderTokens == {"{DATE_EN}", "{DATE_ZH}", "{gender_en}", "{gender_zh}", "{age}"}

\* the configured date of a questionnaire template
DateOf(a) == IF a.template = "english" THEN DATE_EN ELSE DATE_ZH

\* a questionnaire prompt was rendered
QuestionnaireRendered ==
    /\ pipeline = "prompt"
    /\ pc = "rendered"
    /\ inputs[1].template \in {"english", "mandarin"}

\* C13: a prompt returned by build_english_prompt or build_mandarin_prompt
\* has every placeholder resolved: no placeholder token of the template
\* ({DATE_EN}, {DATE_ZH}, {gender_en}, {gender_zh}, {age}) is left in the
\* rendered text, and the date slot carries DATE_EN / DATE_ZH.
C13_NoPlaceholderRemains ==
    QuestionnaireRendered =>
        \A j \in 1..2 :
           /\ \A k \in 1..Len(prompts[j]) : prompts[j][k] \notin PlaceholderTokens
           /\ \E k \in 1..Len(prompts[j]) : prompts[j][k] = DateOf(inputs[j])

\* the English prompt has the gender and the age filled in and still reads
\* "Today is {DATE_EN}."
C13_DateLeftUnresolved ==
    /\ QuestionnaireRendered
    /\ inputs[1].template = "english"
    /\ prompts[1][2] = "{DATE_EN}"
    /\ prompts[1][5] = inputs[1].gender
    /\ prompts[1][7] = ToString(inputs[1].age)
    /\ \A k \in 1..Len(prompts[1]) : prompts[1][k] # DATE_EN

====
